---- MODULE Spec2Model ----
(***************************************************************************)
(* Canonicalization and solution application of the type-inference core    *)
(* (crates/ra_hir/src/ty/infer/unify.rs).                                   *)
(*                                                                         *)
(* The state is the inference context's unification table, the             *)
(* Canonicalized value most recently produced (with the table as it was    *)
(* when the Canonicalizer was created and a trace of what the fold's       *)
(* closure did), the last decanonicalize_ty call and the last              *)
(* apply_solution call.  Each public function of unify.rs is one action    *)
(* that runs the whole call.                                                *)
(***************************************************************************)
EXTENDS Naturals, Sequences, FiniteSets

VARIABLES ctx, canon, dec, app

vars == <<ctx, canon, dec, app>>

(***************************************************************************)
(* Bounds of the model.                                                    *)
(***************************************************************************)
\* inference variables the context may hold
MaxVars == 2
\* largest Bound index occurring in a type handed to the core
MaxBound == 1
\* frames of nested do_canonicalize_ty calls the call stack can hold
StackLimit == 5
\* largest num_vars of a solver solution
MaxNumVars == 2
\* most types in the value of a solver solution
MaxSolutionLen == 2

(***************************************************************************)
(* Ty: a node is a record with a tag, a kind (the InferTy category of an   *)
(* Infer node, the type constructor of an Apply node), a number (the       *)
(* TypeVarId of an Infer node, the index of a Bound node) and the          *)
(* sequence of its children.                                               *)
(***************************************************************************)
InferTyKinds == {"TypeVar", "IntVar", "FloatVar"}

Infer(kind, id) == [tag |-> "Infer", kind |-> kind, n |-> id, args |-> <<>>]

Bound(idx) == [tag |-> "Bound", kind |-> "", n |-> idx, args |-> <<>>]

Apply(ctor, args) == [tag |-> "Apply", kind |-> ctor, n |-> 0, args |-> args]

Unknown == [tag |-> "Unknown", kind |-> "", n |-> 0, args |-> <<>>]

\* InferTy as a value of its own (an entry of free_vars)
InferTy(kind, id) == [kind |-> kind, id |-> id]

\* InferTy::fallback_value: the concrete type a variable of a kind falls back to
fallback_value(kind) ==
    CASE kind = "TypeVar" -> Unknown
      [] kind = "IntVar" -> Apply("i32", <<>>)
      [] kind = "FloatVar" -> Apply("f64", <<>>)

(***************************************************************************)
(* The unification table: parent[id + 1] is the union-find parent of id    *)
(* and value[id + 1], read at a root, the value of its class.              *)
(***************************************************************************)
\* TypeVarValue::Unknown: the class is not resolved
Unresolved == [tag |-> "Unresolved", kind |-> "", n |-> 0, args |-> <<>>]

EmptyTable == [parent |-> <<>>, value |-> <<>>]

NumVarsOf(table) == Len(table.parent)

IdsOf(table) == 0 .. (NumVarsOf(table) - 1)

RECURSIVE Root(_, _)
Root(table, id) ==
    IF table.parent[id + 1] = id THEN id ELSE Root(table, table.parent[id + 1])

RECURSIVE PathToRoot(_, _)
PathToRoot(table, id) ==
    IF table.parent[id + 1] = id THEN {}
    ELSE {id} \cup PathToRoot(table, table.parent[id + 1])

\* the lookup redirects every key on the path to the root (path compression)
Compress(table, id) ==
    [table EXCEPT !.parent =
        [i \in 1 .. Len(table.parent) |->
            IF (i - 1) \in PathToRoot(table, id) THEN Root(table, id)
            ELSE table.parent[i]]]

find(table, id) == [key |-> Root(table, id), table |-> Compress(table, id)]

probe_value(table, id) ==
    [value |-> table.value[Root(table, id) + 1], table |-> Compress(table, id)]

new_type_var(table) ==
    [key |-> NumVarsOf(table),
     table |-> [parent |-> Append(table.parent, NumVarsOf(table)),
                value |-> Append(table.value, Unresolved)]]

\* union of the classes of a and b: the root of a is redirected to the root of b
union(table, a, b) ==
    [table EXCEPT !.parent[Root(table, a) + 1] = Root(table, b)]

\* union_value: the class of a is bound to ty
union_value(table, a, ty) ==
    [table EXCEPT !.value[Root(table, a) + 1] = ty]

Contains(seq, x) == \E i \in 1 .. Len(seq) : seq[i] = x

\* Iterator::position: the index (from 0) of the first element equal to x
Position(seq, x) ==
    (CHOOSE i \in 1 .. Len(seq) : seq[i] = x /\ \A j \in 1 .. (i - 1) : seq[j] # x) - 1

(***************************************************************************)
(* Canonicalizer.  A canonicalizer value cz holds the borrowed context,    *)
(* free_vars and var_stack, and a record of the run: trace (one entry per  *)
(* Infer node that reached the table lookup of the unresolved branch),     *)
(* cycles (one entry per Infer node found on var_stack), the deepest       *)
(* var_stack seen, whether an identifier was pushed while already on the   *)
(* stack, and whether the nesting outgrew the call stack.                  *)
(***************************************************************************)
canonicalizer(table) ==
    [ctx |-> table, free_vars |-> <<>>, var_stack |-> <<>>,
     trace |-> <<>>, cycles |-> <<>>, max_depth |-> 0,
     dup |-> FALSE, overflow |-> FALSE]

\* add, were a new variable put in front of the list
add_AtFront(cz, free_var) ==
    IF Contains(cz.free_vars, free_var)
    THEN [cz |-> cz, position |-> Position(cz.free_vars, free_var)]
    ELSE [cz |-> [cz EXCEPT !.free_vars = <<free_var>> \o cz.free_vars],
          position |-> 0]

add(cz, free_var) ==
    IF Contains(cz.free_vars, free_var)
    THEN [cz |-> cz, position |-> Position(cz.free_vars, free_var)]
    ELSE [cz |-> [cz EXCEPT !.free_vars = Append(cz.free_vars, free_var)],
          position |-> Len(cz.free_vars)]

RECURSIVE do_canonicalize_ty(_, _)
RECURSIVE FoldCanonicalize(_, _)
RECURSIVE FoldCanonicalizeArgs(_, _)
RECURSIVE CanonicalizeClosure(_, _)

\* RecursiveType, were the fallback value also written to the table
RecursiveType_Resolving(cz, tv) ==
    [cz |-> [cz EXCEPT !.ctx = union_value(cz.ctx, tv.n, fallback_value(tv.kind)),
                       !.cycles = Append(@,
                [kind |-> tv.kind, id |-> tv.n, stack |-> cz.var_stack])],
     ty |-> fallback_value(tv.kind)]

\* `return tv.fallback_value()`: the variable is on var_stack
RecursiveType(cz, tv) ==
    [cz |-> [cz EXCEPT !.cycles = Append(@,
                [kind |-> tv.kind, id |-> tv.n, stack |-> cz.var_stack])],
     ty |-> fallback_value(tv.kind)]

\* self.var_stack.push(inner), with the table as the probe left it
Pushed(cz, inner, table) ==
    [cz EXCEPT !.ctx = table,
               !.var_stack = Append(@, inner),
               !.max_depth = IF Len(cz.var_stack) + 1 > @
                             THEN Len(cz.var_stack) + 1 ELSE @,
               !.dup = @ \/ Contains(cz.var_stack, inner)]

\* self.var_stack.pop() after the nested call returned result
Popped(result) ==
    [cz |-> [result.cz EXCEPT !.var_stack = SubSeq(@, 1, Len(@) - 1)],
     ty |-> result.ty]

\* the variable is resolved to known_ty: the nested call between push and
\* pop; a nesting the call stack cannot hold overflows it
KnownTy(cz, tv, table, known_ty) ==
    IF Len(cz.var_stack) >= StackLimit
    THEN [cz |-> [cz EXCEPT !.overflow = TRUE], ty |-> tv]
    ELSE Popped(do_canonicalize_ty(Pushed(cz, tv.n, table), known_ty))

\* Ty::Bound(position as u32) for the position add returned
BoundAt(tv, added) ==
    [cz |-> [added.cz EXCEPT !.trace = Append(@,
                [kind |-> tv.kind, id |-> tv.n, position |-> added.position,
                 free_vars |-> added.cz.free_vars])],
     ty |-> Bound(added.position)]

\* FreeVar, were free_var built from the identifier itself and not its root
FreeVar_OfInner(cz, tv, found) ==
    BoundAt(tv, add([cz EXCEPT !.ctx = found.table], InferTy(tv.kind, tv.n)))

\* the variable is unresolved: free_var is built from the root find returned
FreeVar(cz, tv, found) ==
    BoundAt(tv, add([cz EXCEPT !.ctx = found.table], InferTy(tv.kind, found.key)))

\* the branch on probe_value(inner).known()
Probed(cz, tv, probed) ==
    IF probed.value # Unresolved
    THEN KnownTy(cz, tv, probed.table, probed.value)
    ELSE FreeVar(cz, tv, find(probed.table, tv.n))

\* CanonicalizeClosure, were var_stack not consulted
CanonicalizeClosure_NoStackCheck(cz, ty) ==
    IF ty.tag = "Infer"
    THEN Probed(cz, ty, probe_value(cz.ctx, ty.n))
    ELSE [cz |-> cz, ty |-> ty]

\* the closure handed to ty.fold in do_canonicalize_ty, applied to one node
CanonicalizeClosure(cz, ty) ==
    IF ty.tag = "Infer" THEN
        IF Contains(cz.var_stack, ty.n)
        THEN RecursiveType(cz, ty)
        ELSE Probed(cz, ty, probe_value(cz.ctx, ty.n))
    ELSE [cz |-> cz, ty |-> ty]

\* one more element r of a sequence rewritten with the canonicalizer threaded
Collect(acc, r) == [cz |-> r.cz, tys |-> Append(acc.tys, r.ty)]

\* the node rebuilt from its rewritten children, handed to the closure
Rebuilt(ty, folded) ==
    CanonicalizeClosure(folded.cz, [ty EXCEPT !.args = folded.tys])

\* Ty::fold with the closure above: the children first, left to right, then
\* the node itself
FoldCanonicalizeArgs(acc, tys) ==
    IF tys = <<>> THEN acc
    ELSE FoldCanonicalizeArgs(Collect(acc, FoldCanonicalize(acc.cz, Head(tys))),
                              Tail(tys))

FoldCanonicalize(cz, ty) ==
    Rebuilt(ty, FoldCanonicalizeArgs([cz |-> cz, tys |-> <<>>], ty.args))

do_canonicalize_ty(cz, ty) == FoldCanonicalize(cz, ty)

\* .iter().map(|ty| self.do_canonicalize_ty(ty.clone())).collect()
RECURSIVE CanonicalizeEach(_, _)
CanonicalizeEach(acc, tys) ==
    IF tys = <<>> THEN acc
    ELSE CanonicalizeEach(Collect(acc, do_canonicalize_ty(acc.cz, Head(tys))),
                          Tail(tys))

TraitRefOf(trait_ref, substs) ==
    [cz |-> substs.cz,
     value |-> [trait_ |-> trait_ref.trait_, substs |-> substs.tys]]

do_canonicalize_trait_ref(cz, trait_ref) ==
    TraitRefOf(trait_ref, CanonicalizeEach([cz |-> cz, tys |-> <<>>], trait_ref.substs))

ProjectionTyOf(projection_ty, params) ==
    [cz |-> params.cz,
     value |-> [associated_ty |-> projection_ty.associated_ty,
                parameters |-> params.tys]]

do_canonicalize_projection_ty(cz, projection_ty) ==
    ProjectionTyOf(projection_ty,
        CanonicalizeEach([cz |-> cz, tys |-> <<>>], projection_ty.parameters))

ProjectionPredicateOf(ty, projection_ty) ==
    [cz |-> projection_ty.cz,
     value |-> [ty |-> ty, projection_ty |-> projection_ty.value]]

\* projection.ty is canonicalized first, projection.projection_ty after it
ProjectionAfterTy(projection, ty) ==
    ProjectionPredicateOf(ty.ty,
        do_canonicalize_projection_ty(ty.cz, projection.projection_ty))

do_canonicalize_projection_predicate(cz, projection) ==
    ProjectionAfterTy(projection, do_canonicalize_ty(cz, projection.ty))

\* Canonicalized { value: Canonical { value, num_vars }, free_vars }
into_canonicalized(cz, result) ==
    [value |-> [value |-> result, num_vars |-> Len(cz.free_vars)],
     free_vars |-> cz.free_vars]

\* a call's result: the Canonicalized value (out) and the canonicalizer as
\* the call left it (cz)
TyCall(result) ==
    [cz |-> result.cz, out |-> into_canonicalized(result.cz, result.ty)]

canonicalize_ty(table, ty) == TyCall(do_canonicalize_ty(canonicalizer(table), ty))

TraitRefCall(trait_ref_in_env, result) ==
    [cz |-> result.cz,
     out |-> into_canonicalized(result.cz,
                [value |-> result.value,
                 environment |-> trait_ref_in_env.environment])]

canonicalize_trait_ref(table, trait_ref_in_env) ==
    TraitRefCall(trait_ref_in_env,
        do_canonicalize_trait_ref(canonicalizer(table), trait_ref_in_env.value))

ProjectionCall(result) ==
    [cz |-> result.cz, out |-> into_canonicalized(result.cz, result.value)]

canonicalize_projection(table, projection) ==
    ProjectionCall(do_canonicalize_projection_predicate(canonicalizer(table), projection))

(***************************************************************************)
(* Canonicalized: decanonicalize_ty and apply_solution.                    *)
(***************************************************************************)
\* DecanonicalizeClosure, were an index out of range an error type
DecanonicalizeClosure_Strict(free_vars, ty) ==
    IF ty.tag = "Bound" THEN
        IF ty.n < Len(free_vars)
        THEN Infer(free_vars[ty.n + 1].kind, free_vars[ty.n + 1].id)
        ELSE Unknown
    ELSE ty

\* the closure handed to ty.fold in decanonicalize_ty, applied to one node
DecanonicalizeClosure(free_vars, ty) ==
    IF ty.tag = "Bound" THEN
        IF ty.n < Len(free_vars)
        THEN Infer(free_vars[ty.n + 1].kind, free_vars[ty.n + 1].id)
        ELSE Bound(ty.n)
    ELSE ty

RECURSIVE FoldDecanonicalize(_, _)
FoldDecanonicalize(free_vars, ty) ==
    DecanonicalizeClosure(free_vars,
        [ty EXCEPT !.args = [i \in 1 .. Len(ty.args) |->
                                FoldDecanonicalize(free_vars, ty.args[i])]])

decanonicalize_ty(canonicalized, ty) == FoldDecanonicalize(canonicalized.free_vars, ty)

\* Ty::subst_bound_vars: Bound(idx) becomes substs[idx]
RECURSIVE subst_bound_vars(_, _)
subst_bound_vars(ty, substs) ==
    IF ty.tag = "Bound" THEN
        IF ty.n < Len(substs) THEN substs[ty.n + 1] ELSE ty
    ELSE [ty EXCEPT !.args = [i \in 1 .. Len(ty.args) |->
                                subst_bound_vars(ty.args[i], substs)]]

\* InferenceContext::unify(&Ty::Infer(var), &ty) as far as the table goes: an
\* unresolved class is merged with the class of an unresolved variable, or
\* bound to ty
unify(table, var, ty) ==
    IF probe_value(table, var.id).value # Unresolved THEN table
    ELSE IF ty.tag = "Infer" /\ probe_value(table, ty.n).value = Unresolved
         THEN union(table, var.id, ty.n)
         ELSE union_value(table, var.id, ty)

\* one more ctx.new_type_var() collected into new_vars
Allocated(run, fresh) ==
    [run EXCEPT !.table = fresh.table,
                !.new_vars = Append(@, Infer("TypeVar", fresh.key))]

\* (0..solution.num_vars).map(|_| ctx.new_type_var()).collect()
RECURSIVE NewVars(_, _)
NewVars(run, n) ==
    IF n = 0 THEN run
    ELSE NewVars(Allocated(run, new_type_var(run.table)), n - 1)

\* ctx.unify(&Ty::Infer(var), &ty.subst_bound_vars(&new_vars))
UnifyCall(run, i, var, ty) ==
    [run EXCEPT !.table = unify(run.table, var, ty),
                !.calls = Append(@, [index |-> i, var |-> var, ty |-> ty,
                                     allocated |-> Len(run.new_vars)])]

\* the for loop of apply_solution from index i (from 0) on: self.free_vars[i]
\* panics when i is no index of free_vars
RECURSIVE ApplyLoop(_, _, _, _)

\* ApplyLoop, were the loop over the indices of free_vars
ApplyLoop_OverFreeVars(free_vars, values, i, run) ==
    IF i >= Len(free_vars) THEN run
    ELSE IF i >= Len(values) THEN [run EXCEPT !.panicked = TRUE]
    ELSE ApplyLoop(free_vars, values, i + 1,
            UnifyCall(run, i, free_vars[i + 1],
                      subst_bound_vars(values[i + 1], run.new_vars)))

ApplyLoop(free_vars, values, i, run) ==
    IF i >= Len(values) THEN run
    ELSE IF i >= Len(free_vars) THEN [run EXCEPT !.panicked = TRUE]
    ELSE ApplyLoop(free_vars, values, i + 1,
            UnifyCall(run, i, free_vars[i + 1],
                      subst_bound_vars(values[i + 1], run.new_vars)))

\* apply_solution, were one variable allocated for each free variable
apply_solution_PerFreeVar(canonicalized, table, solution) ==
    ApplyLoop(canonicalized.free_vars, solution.value, 0,
        NewVars([table |-> table, new_vars |-> <<>>, calls |-> <<>>,
                 panicked |-> FALSE], Len(canonicalized.free_vars)))

\* run: the context, the variables allocated, the unify calls made so far and
\* whether the call panicked
apply_solution(canonicalized, table, solution) ==
    ApplyLoop(canonicalized.free_vars, solution.value, 0,
        NewVars([table |-> table, new_vars |-> <<>>, calls |-> <<>>,
                 panicked |-> FALSE], solution.num_vars))

(***************************************************************************)
(* The values the operations are applied to.                               *)
(***************************************************************************)
VarIds == 0 .. (MaxVars - 1)

InferLeaves == {Infer(kind, id) : kind \in InferTyKinds, id \in VarIds}

BoundLeaves == {Bound(idx) : idx \in 0 .. MaxBound}

Leaves == InferLeaves \cup BoundLeaves \cup {Apply("bool", <<>>)}

\* the types a field of a trait reference or projection is drawn from
ArgTys == {Infer(kind, id) : kind \in {"TypeVar", "IntVar"}, id \in VarIds}
              \cup {Bound(0)}

\* the types canonicalize_ty is applied to
InTys ==
    Leaves
        \cup {Apply("Vec", <<a>>) : a \in Leaves}
        \cup {Apply("Pair", <<a, b>>) : a \in ArgTys, b \in ArgTys}
        \cup {Apply("Pair", <<Apply("Vec", <<a>>), b>>) :
                a \in {Infer("FloatVar", id) : id \in VarIds}, b \in ArgTys}

InTraitRefs ==
    {[value |-> [trait_ |-> "Trait", substs |-> <<a, b>>], environment |-> "env"] :
        a \in ArgTys, b \in {Infer("TypeVar", id) : id \in VarIds}}

InProjections ==
    {[ty |-> t,
      projection_ty |-> [associated_ty |-> "Item", parameters |-> <<a, b>>]] :
        t \in {Infer("TypeVar", id) : id \in VarIds}
                \cup {Apply("Vec", <<Infer("IntVar", 0)>>)},
        a \in {Infer("TypeVar", id) : id \in VarIds},
        b \in {Infer(kind, 0) : kind \in {"TypeVar", "IntVar"}}}

\* the values a class is resolved to by the inference pass
ValueTys ==
    {Infer("TypeVar", id) : id \in VarIds}
        \cup {Apply("Vec", <<Infer("IntVar", id)>>) : id \in VarIds}

\* the types decanonicalize_ty is applied to, besides the canonical value
DecTys ==
    {Apply("Pair", <<Bound(0), Apply("Vec", <<Bound(1)>>)>>),
     Apply("Pair", <<Apply("Vec", <<Bound(MaxBound + 1)>>), Infer("IntVar", 0)>>)}

RECURSIVE InferIds(_)
InferIds(ty) ==
    IF ty.tag = "Infer" THEN {ty.n}
    ELSE UNION {InferIds(ty.args[i]) : i \in 1 .. Len(ty.args)}

InferIdsOfSeq(tys) == UNION {InferIds(tys[i]) : i \in 1 .. Len(tys)}

NoCanon == [form |-> "none"]

NoDec == [form |-> "none"]

NoApp == [form |-> "none"]

(***************************************************************************)
(* Actions.                                                                *)
(***************************************************************************)
Init ==
    /\ ctx = EmptyTable
    /\ canon = NoCanon
    /\ dec = NoDec
    /\ app = NoApp

\* the inference pass creates a variable
NewTypeVar ==
    /\ canon.form = "none"
    /\ NumVarsOf(ctx) < MaxVars
    /\ ctx' = new_type_var(ctx).table
    /\ UNCHANGED <<canon, dec, app>>

\* the inference pass unifies two unresolved variables
UnionVars ==
    /\ canon.form = "none"
    /\ \E a \in IdsOf(ctx), b \in IdsOf(ctx) :
        /\ Root(ctx, a) # Root(ctx, b)
        /\ probe_value(ctx, a).value = Unresolved
        /\ probe_value(ctx, b).value = Unresolved
        /\ ctx' = union(ctx, a, b)
    /\ UNCHANGED <<canon, dec, app>>

\* the inference pass resolves an unresolved variable
AssignValue ==
    /\ canon.form = "none"
    /\ \E a \in IdsOf(ctx), ty \in ValueTys :
        /\ InferIds(ty) \subseteq IdsOf(ctx)
        /\ probe_value(ctx, a).value = Unresolved
        /\ ctx' = union_value(ctx, a, ty)
    /\ UNCHANGED <<canon, dec, app>>

\* what a canonicalization call leaves behind: the Canonicalized value, the
\* call's argument, the table before the call and the run's record
Held(form, input, call) ==
    [form |-> form, input |-> input, before |-> ctx, out |-> call.out,
     trace |-> call.cz.trace, cycles |-> call.cz.cycles,
     max_depth |-> call.cz.max_depth, dup |-> call.cz.dup,
     overflow |-> call.cz.overflow]

CanonicalizeTy(ty) ==
    /\ canon.form = "none"
    /\ InferIds(ty) \subseteq IdsOf(ctx)
    /\ \E call \in {canonicalize_ty(ctx, ty)} :
        /\ canon' = Held("ty", ty, call)
        /\ ctx' = call.cz.ctx
    /\ UNCHANGED <<dec, app>>

CanonicalizeTraitRef(trait_ref_in_env) ==
    /\ canon.form = "none"
    /\ InferIdsOfSeq(trait_ref_in_env.value.substs) \subseteq IdsOf(ctx)
    /\ \E call \in {canonicalize_trait_ref(ctx, trait_ref_in_env)} :
        /\ canon' = Held("trait_ref", trait_ref_in_env, call)
        /\ ctx' = call.cz.ctx
    /\ UNCHANGED <<dec, app>>

CanonicalizeProjection(projection) ==
    /\ canon.form = "none"
    /\ InferIds(projection.ty) \cup InferIdsOfSeq(projection.projection_ty.parameters)
            \subseteq IdsOf(ctx)
    /\ \E call \in {canonicalize_projection(ctx, projection)} :
        /\ canon' = Held("projection", projection, call)
        /\ ctx' = call.cz.ctx
    /\ UNCHANGED <<dec, app>>

DecanonicalizeTy(ty) ==
    /\ canon.form # "none"
    /\ app.form = "none"
    /\ dec' = [form |-> "done", arg |-> ty, result |-> decanonicalize_ty(canon.out, ty)]
    /\ UNCHANGED <<ctx, canon, app>>

\* decanonicalize_ty applied to the canonical value of the Canonicalized<Ty> held
DecanonicalizeValue ==
    /\ canon.form = "ty"
    /\ DecanonicalizeTy(canon.out.value.value)

\* the Canonicalized value goes out of scope
Drop ==
    /\ canon.form # "none"
    /\ app.form = "none"
    /\ canon' = NoCanon
    /\ dec' = NoDec
    /\ UNCHANGED <<ctx, app>>

Next ==
    \/ NewTypeVar
    \/ UnionVars
    \/ AssignValue
    \/ \E ty \in InTys : CanonicalizeTy(ty)
    \/ \E trait_ref_in_env \in InTraitRefs : CanonicalizeTraitRef(trait_ref_in_env)
    \/ \E projection \in InProjections : CanonicalizeProjection(projection)
    \/ \E ty \in DecTys : DecanonicalizeTy(ty)
    \/ DecanonicalizeValue
    \/ Drop

Spec == Init /\ [][Next]_vars

(***************************************************************************)
(* Solution application.  The solver's answer to a canonical query: its    *)
(* Bound indices are below its num_vars; the length of its value is not    *)
(* tied to the query's free variables.                                     *)
(***************************************************************************)
SolutionTys(num_vars) ==
    {Apply("i32", <<>>)}
        \cup {Bound(j) : j \in 0 .. (num_vars - 1)}
        \cup {Apply("Vec", <<Bound(j)>>) : j \in {k \in {num_vars - 1} : num_vars > 0}}

Solutions ==
    UNION {{[value |-> value, num_vars |-> num_vars] :
                value \in UNION {[1 .. len -> SolutionTys(num_vars)] :
                                    len \in 0 .. MaxSolutionLen}} :
            num_vars \in 0 .. MaxNumVars}

\* the types canonicalize_ty is applied to before a solution is applied
QueryTys == InferLeaves \cup {Apply("bool", <<>>)}

ApplySolution(solution) ==
    /\ canon.form # "none"
    /\ app.form = "none"
    /\ \E run \in {apply_solution(canon.out, ctx, solution)} :
        /\ app' = [form |-> "done", solution |-> solution, before |-> ctx,
                   new_vars |-> run.new_vars, calls |-> run.calls,
                   panicked |-> run.panicked]
        /\ ctx' = run.table
    /\ UNCHANGED <<canon, dec>>

\* the queries handed to the solver, and the answers applied to them
NextApply ==
    \/ NewTypeVar
    \/ UnionVars
    \/ \E ty \in QueryTys : CanonicalizeTy(ty)
    \/ \E trait_ref_in_env \in InTraitRefs : CanonicalizeTraitRef(trait_ref_in_env)
    \/ \E projection \in InProjections : CanonicalizeProjection(projection)
    \/ \E solution \in Solutions : ApplySolution(solution)
    \/ Drop

SpecApply == Init /\ [][NextApply]_vars

(***************************************************************************)
(* Vocabulary of the properties.                                           *)
(***************************************************************************)
\* the class of an occurrence recorded in the trace, in the table the
\* Canonicalizer was created on: its kind and the root of its identifier
KeyOf(entry) == <<entry.kind, Root(canon.before, entry.id)>>

RootOf(entry) == Root(canon.before, entry.id)

TraceIndices == 1 .. Len(canon.trace)

NoDuplicates(seq) == \A i, j \in 1 .. Len(seq) : seq[i] = seq[j] => i = j

IsPrefix(short, long) ==
    /\ Len(short) <= Len(long)
    /\ \A i \in 1 .. Len(short) : short[i] = long[i]

\* the paths (sequences of child indices) of the nodes of a type
RECURSIVE Paths(_)
Paths(ty) ==
    {<<>>} \cup UNION {{<<i>> \o p : p \in Paths(ty.args[i])} : i \in 1 .. Len(ty.args)}

RECURSIVE NodeAt(_, _)
NodeAt(ty, path) ==
    IF path = <<>> THEN ty ELSE NodeAt(ty.args[Head(path)], Tail(path))

\* a node without its children
Label(ty) == <<ty.tag, ty.kind, ty.n>>

NodesOf(ty) == {NodeAt(ty, p) : p \in Paths(ty)}

HasBound(ty) == \E node \in NodesOf(ty) : node.tag = "Bound"

HasInfer(ty) == \E node \in NodesOf(ty) : node.tag = "Infer"

IsUnresolved(table, id) == probe_value(table, id).value = Unresolved

\* the two fields of the call's argument and of its result, for the calls
\* whose argument has two type fields side by side
PairArgs ==
    IF canon.form = "ty" /\ canon.input.kind = "Pair"
    THEN [in |-> canon.input.args, out |-> canon.out.value.value.args]
    ELSE IF canon.form = "trait_ref"
    THEN [in |-> canon.input.value.substs, out |-> canon.out.value.value.value.substs]
    ELSE IF canon.form = "projection"
    THEN [in |-> canon.input.projection_ty.parameters,
          out |-> canon.out.value.value.projection_ty.parameters]
    ELSE [in |-> <<>>, out |-> <<>>]

\* both fields are unresolved inference variables
PairOfFreeVars ==
    /\ Len(PairArgs.in) = 2
    /\ \A i \in 1 .. 2 :
        /\ PairArgs.in[i].tag = "Infer"
        /\ IsUnresolved(canon.before, PairArgs.in[i].n)

(***************************************************************************)
(* C1.  Deduplication within one canonicalization call.                    *)
(***************************************************************************)
\* C1 as stated: two occurrences of unresolved inference variables whose
\* identifiers have the same union-find representative, whatever their kind,
\* are replaced by the identical Bound index, and num_vars counts each
\* representative once.
C1_SameRepresentativeSameIndex ==
    canon.form # "none" =>
        /\ \A i, j \in TraceIndices :
            RootOf(canon.trace[i]) = RootOf(canon.trace[j])
                => canon.trace[i].position = canon.trace[j].position
        /\ PairOfFreeVars /\ Root(canon.before, PairArgs.in[1].n)
                                = Root(canon.before, PairArgs.in[2].n)
                => PairArgs.out[1] = PairArgs.out[2]
        /\ canon.out.value.num_vars
                = Cardinality({RootOf(canon.trace[i]) : i \in TraceIndices})

\* C1 amended: two occurrences of unresolved inference variables of the same
\* kind whose identifiers have the same representative are replaced by the
\* identical Bound index, occurrences of different kind or representative by
\* different ones; each (kind, representative) class is one entry of
\* free_vars, so num_vars counts it once.
C1_SameKindAndRepresentativeSameIndex ==
    canon.form # "none" =>
        /\ \A i, j \in TraceIndices :
            KeyOf(canon.trace[i]) = KeyOf(canon.trace[j])
                <=> canon.trace[i].position = canon.trace[j].position
        /\ PairOfFreeVars =>
            /\ \A i \in 1 .. 2 : PairArgs.out[i].tag = "Bound"
            /\ (PairArgs.in[1].kind = PairArgs.in[2].kind
                    /\ Root(canon.before, PairArgs.in[1].n)
                        = Root(canon.before, PairArgs.in[2].n))
                <=> PairArgs.out[1] = PairArgs.out[2]
        /\ NoDuplicates(canon.out.free_vars)
        /\ {<<v.kind, v.id>> : v \in {canon.out.free_vars[k] :
                                        k \in 1 .. Len(canon.out.free_vars)}}
                = {KeyOf(canon.trace[i]) : i \in TraceIndices}
        /\ canon.out.value.num_vars
                = Cardinality({KeyOf(canon.trace[i]) : i \in TraceIndices})

\* two different identifiers of one class, of the same kind, side by side
C1_Witness ==
    /\ canon.form # "none"
    /\ PairOfFreeVars
    /\ PairArgs.in[1].kind = PairArgs.in[2].kind
    /\ PairArgs.in[1].n # PairArgs.in[2].n
    /\ Root(canon.before, PairArgs.in[1].n) = Root(canon.before, PairArgs.in[2].n)
    /\ PairArgs.out[1] = PairArgs.out[2]
    /\ canon.out.value.num_vars = 1

(***************************************************************************)
(* C2.  The Canonical<Ty> returned by canonicalize_ty is well formed.      *)
(***************************************************************************)
WellFormed(canonical) ==
    \A node \in NodesOf(canonical.value) :
        /\ node.tag = "Bound" => node.n < canonical.num_vars
        /\ node.tag # "Infer"

\* C2 as stated: for every input Ty, every Bound(i) of the returned value
\* satisfies i < num_vars and the value contains no Infer node.
C2_CanonicalWellFormed ==
    canon.form = "ty" => WellFormed(canon.out.value)

\* the part of C2 the code keeps: an input without Bound nodes
C2_WellFormedOnBoundFreeInput ==
    canon.form = "ty" /\ ~HasBound(canon.input) => WellFormed(canon.out.value)

(***************************************************************************)
(* C3.  Recursive types: the recursion is bounded and closed by fallback.  *)
(***************************************************************************)
\* ty with every Infer node replaced by its kind's fallback value
RECURSIVE WithFallback(_)
WithFallback(ty) ==
    IF ty.tag = "Infer" THEN fallback_value(ty.kind)
    ELSE [ty EXCEPT !.args = [i \in 1 .. Len(ty.args) |-> WithFallback(ty.args[i])]]

\* ty with every Infer node replaced by inner
RECURSIVE Spliced(_, _)
Spliced(ty, inner) ==
    IF ty.tag = "Infer" THEN inner
    ELSE [ty EXCEPT !.args = [i \in 1 .. Len(ty.args) |-> Spliced(ty.args[i], inner)]]

ValueOf(table, id) == probe_value(table, id).value

\* the argument is a variable resolved to a value that mentions only that
\* variable: a cycle of length 1
SelfCycle ==
    /\ canon.form = "ty"
    /\ canon.input.tag = "Infer"
    /\ ValueOf(canon.before, canon.input.n) # Unresolved
    /\ InferIds(ValueOf(canon.before, canon.input.n)) = {canon.input.n}

\* the argument is a variable resolved to a value that mentions only a
\* variable of another class, whose value mentions only the first: a cycle
\* of length 2
TwoCycle ==
    /\ canon.form = "ty"
    /\ canon.input.tag = "Infer"
    /\ ValueOf(canon.before, canon.input.n) # Unresolved
    /\ \E w \in IdsOf(canon.before) :
        /\ Root(canon.before, w) # Root(canon.before, canon.input.n)
        /\ InferIds(ValueOf(canon.before, canon.input.n)) = {w}
        /\ ValueOf(canon.before, w) # Unresolved
        /\ InferIds(ValueOf(canon.before, w)) = {canon.input.n}

\* C3: every canonicalization call returns without outgrowing the call
\* stack; var_stack never holds an identifier twice, so it is never deeper
\* than the number of identifiers of the table; an occurrence found on
\* var_stack is replaced by its kind's fallback value and not expanded again.
C3_RecursionBounded ==
    canon.form # "none" =>
        /\ ~canon.overflow
        /\ ~canon.dup
        /\ canon.max_depth <= NumVarsOf(canon.before)
        /\ \A i \in 1 .. Len(canon.cycles) :
            /\ Contains(canon.cycles[i].stack, canon.cycles[i].id)
            /\ NoDuplicates(canon.cycles[i].stack)
        /\ SelfCycle =>
            canon.out.value.value
                = WithFallback(ValueOf(canon.before, canon.input.n))
        /\ TwoCycle =>
            canon.out.value.value
                = Spliced(ValueOf(canon.before, canon.input.n),
                    WithFallback(ValueOf(canon.before,
                        CHOOSE w \in InferIds(ValueOf(canon.before, canon.input.n)) : TRUE)))
        /\ canon.form = "ty" /\ ~HasBound(canon.input) => ~HasInfer(canon.out.value.value)

\* a cycle through two variables was closed at nesting depth 2
C3_Witness ==
    /\ TwoCycle
    /\ canon.max_depth = 2
    /\ Len(canon.cycles) = 1
    /\ ~canon.overflow

(***************************************************************************)
(* C8.  Order stability.                                                   *)
(***************************************************************************)
\* the classes of the first i occurrences of the trace
KeysBefore(i) == {KeyOf(canon.trace[k]) : k \in 1 .. (i - 1)}

FreeVarsBefore(i) == IF i = 1 THEN <<>> ELSE canon.trace[i - 1].free_vars

\* the occurrences (kind and identifier) a trace lists, in order
Occurrences(trace) == [i \in 1 .. Len(trace) |-> <<trace[i].kind, trace[i].id>>]

\* the occurrences canonicalize_ty meets in ty alone, on the table the
\* Canonicalizer was created on
OccurrencesIn(ty) == Occurrences(canonicalize_ty(canon.before, ty).cz.trace)

\* C8: free_vars is append-only during a call; the Bound index of a class
\* (kind and representative) is the number of distinct classes met before
\* its first occurrence, and every later occurrence gets the same index; a
\* projection predicate's ty is traversed before the projection's
\* parameters, and the parameters in sequence order.
C8_OrderStability ==
    canon.form # "none" =>
        /\ \A i \in TraceIndices :
            /\ IsPrefix(FreeVarsBefore(i), canon.trace[i].free_vars)
            /\ Len(canon.trace[i].free_vars) <= Len(FreeVarsBefore(i)) + 1
            /\ KeyOf(canon.trace[i]) \notin KeysBefore(i)
                => canon.trace[i].position = Cardinality(KeysBefore(i))
            /\ \A k \in 1 .. (i - 1) :
                KeyOf(canon.trace[k]) = KeyOf(canon.trace[i])
                    => canon.trace[i].position = canon.trace[k].position
            /\ canon.trace[i].free_vars[canon.trace[i].position + 1]
                    = InferTy(canon.trace[i].kind, RootOf(canon.trace[i]))
        /\ canon.out.free_vars = FreeVarsBefore(Len(canon.trace) + 1)
        /\ canon.form = "projection" =>
            Occurrences(canon.trace)
                = OccurrencesIn(canon.input.ty)
                    \o OccurrencesIn(canon.input.projection_ty.parameters[1])
                    \o OccurrencesIn(canon.input.projection_ty.parameters[2])

\* a projection whose ty and first parameter are of two classes and whose
\* second parameter repeats the first class
C8_Witness ==
    /\ canon.form = "projection"
    /\ Len(canon.trace) = 3
    /\ canon.trace[1].position = 0
    /\ canon.trace[2].position = 1
    /\ canon.trace[3].position = 0
    /\ canon.out.value.value.ty = Bound(0)
    /\ canon.out.value.value.projection_ty.parameters = <<Bound(1), Bound(0)>>

(***************************************************************************)
(* C10.  Canonicalization and decanonicalization leave the inference       *)
(* state logically unchanged.                                              *)
(***************************************************************************)
SameInferenceState(before, after) ==
    /\ NumVarsOf(after) = NumVarsOf(before)
    /\ \A id \in IdsOf(before) :
        /\ Root(after, id) = Root(before, id)
        /\ ValueOf(after, id) = ValueOf(before, id)

\* C10: a canonicalization call allocates no variable, merges no classes and
\* assigns no value (every identifier keeps its representative and its
\* probed value; only parent links are shortened), and decanonicalize_ty
\* leaves the table as it is.
C10_InferenceStateUnchanged ==
    [][/\ canon.form = "none" /\ canon'.form # "none"
            => SameInferenceState(ctx, ctx')
       /\ canon.form # "none" /\ canon' = canon /\ app' = app
            => ctx' = ctx]_vars

\* a call that read a merged class and met a recursive type, followed by a
\* decanonicalize_ty call
C10_Witness ==
    /\ canon.form # "none"
    /\ \E id \in IdsOf(ctx) : Root(ctx, id) # id
    /\ Len(canon.cycles) > 0
    /\ SameInferenceState(canon.before, ctx)
    /\ dec.form = "done"

(***************************************************************************)
(* C6.  decanonicalize_ty.                                                 *)
(***************************************************************************)
\* C6: the result has the shape of the argument; a Bound(idx) node with
\* idx < free_vars.len() has become Infer(free_vars[idx]), at any depth, and
\* every other node (a Bound out of range, an Infer, a compound node) is as
\* it was.
C6_DecanonicalizeRewritesBounds ==
    dec.form = "done" =>
        /\ Paths(dec.result) = Paths(dec.arg)
        /\ \A p \in Paths(dec.arg) :
            LET node == NodeAt(dec.arg, p)
                free_vars == canon.out.free_vars
            IN  IF node.tag = "Bound" /\ node.n < Len(free_vars)
                THEN NodeAt(dec.result, p)
                        = Infer(free_vars[node.n + 1].kind, free_vars[node.n + 1].id)
                ELSE Label(NodeAt(dec.result, p)) = Label(node)

\* one free variable: Bound(0) is rewritten, the nested Bound(1) is out of
\* range and stays
C6_Witness ==
    /\ dec.form = "done"
    /\ Len(canon.out.free_vars) = 1
    /\ dec.arg = Apply("Pair", <<Bound(0), Apply("Vec", <<Bound(1)>>)>>)
    /\ dec.result.args[1].tag = "Infer"
    /\ dec.result.args[2] = Apply("Vec", <<Bound(1)>>)

(***************************************************************************)
(* C7.  Round trip.                                                        *)
(***************************************************************************)
\* the identifiers the value of id's class mentions
Mentions(table, id) ==
    IF ValueOf(table, id) = Unresolved THEN {} ELSE InferIds(ValueOf(table, id))

\* the identifiers reached from ids in at most n steps of Mentions, ids not counted
RECURSIVE ReachedFrom(_, _, _)
ReachedFrom(table, ids, n) ==
    IF n = 0 THEN {}
    ELSE LET next == UNION {Mentions(table, id) : id \in ids}
         IN  next \cup ReachedFrom(table, next, n - 1)

\* no variable the type leads to is resolved to a value that leads back to it
Acyclic(table, ty) ==
    \A id \in InferIds(ty) \cup ReachedFrom(table, InferIds(ty), NumVarsOf(table)) :
        id \notin ReachedFrom(table, {id}, NumVarsOf(table))

\* ty with every unresolved variable replaced by the variable of the same
\* kind carrying its representative, and every resolved variable by its
\* value rewritten the same way
RECURSIVE Resolved(_, _)
Resolved(table, ty) ==
    IF ty.tag = "Infer" THEN
        IF ValueOf(table, ty.n) = Unresolved
        THEN Infer(ty.kind, Root(table, ty.n))
        ELSE Resolved(table, ValueOf(table, ty.n))
    ELSE [ty EXCEPT !.args = [i \in 1 .. Len(ty.args) |-> Resolved(table, ty.args[i])]]

\* decanonicalize_ty was applied to the canonical value of a Canonicalized<Ty>
\* made on an acyclic table
RoundTripDone ==
    /\ canon.form = "ty"
    /\ dec.form = "done"
    /\ dec.arg = canon.out.value.value
    /\ Acyclic(canon.before, canon.input)

\* C7 as stated: for every Ty and every acyclic table, decanonicalizing the
\* canonical value gives the argument with its variables resolved.
C7_RoundTrip ==
    RoundTripDone => dec.result = Resolved(canon.before, canon.input)

\* the part of C7 the code keeps: an argument without Bound nodes
C7_RoundTripOnBoundFreeInput ==
    RoundTripDone /\ ~HasBound(canon.input)
        => dec.result = Resolved(canon.before, canon.input)

(***************************************************************************)
(* C4, C5, C9.  apply_solution.                                            *)
(***************************************************************************)
Min(a, b) == IF a <= b THEN a ELSE b

CallIndices == 1 .. Len(app.calls)

\* the variable with which apply_solution is to replace Bound(j): the j-th
\* variable allocated after those the context held before the call
FreshVar(j) == Infer("TypeVar", NumVarsOf(app.before) + j)

\* given is expected with every Bound(j) replaced by the j-th fresh variable
SubstitutedByFresh(expected, given) ==
    /\ Paths(given) = Paths(expected)
    /\ \A p \in Paths(expected) :
        IF NodeAt(expected, p).tag = "Bound"
        THEN NodeAt(given, p) = FreshVar(NodeAt(expected, p).n)
        ELSE Label(NodeAt(given, p)) = Label(NodeAt(expected, p))

C5_FreshVariables ==
    app.form = "done" =>
        /\ NumVarsOf(ctx) = NumVarsOf(app.before) + app.solution.num_vars
        /\ app.new_vars = [j \in 1 .. app.solution.num_vars |-> FreshVar(j - 1)]
        /\ \A j \in 1 .. Len(app.new_vars) : app.new_vars[j].n \notin IdsOf(app.before)
        /\ \A i \in CallIndices :
            /\ app.calls[i].allocated = app.solution.num_vars
            /\ SubstitutedByFresh(app.solution.value[i], app.calls[i].ty)

\* more solver variables than free variables: the second value's Bound(1)
\* became the second fresh variable
C5_Witness ==
    /\ app.form = "done"
    /\ app.solution.num_vars = 2
    /\ Len(canon.out.free_vars) = 1
    /\ Len(app.calls) = 1
    /\ app.solution.value[1] = Apply("Vec", <<Bound(1)>>)
    /\ app.calls[1].ty = Apply("Vec", <<FreshVar(1)>>)
    /\ NumVarsOf(ctx) = NumVarsOf(app.before) + 2

\* C9 as stated: apply_solution runs to completion whatever the length of
\* solution.value relative to the length of free_vars.
C9_ApplySolutionNeverPanics ==
    app.form = "done" => ~app.panicked

\* the part of C9 the code keeps: no more values than free variables
C9_NoPanicWithinFreeVars ==
    app.form = "done" /\ Len(app.solution.value) <= Len(canon.out.free_vars)
        => ~app.panicked

====
